---- MODULE Spec2Model ----
(***************************************************************************)
(* Model of the model-registry store                                       *)
(*   src/mlflow/store/model_registry/sqlalchemy_store.py (SqlAlchemyStore) *)
(*                                                                         *)
(* The two tables of the backing store are bags of rows, so that a         *)
(* duplicate row is a state the model can express: uniqueness is what the  *)
(* primary-key checks of the flush enforce, not a property of the          *)
(* representation.  Callers are concurrent clients of the one store.  An   *)
(* operation that runs in one managed session is one atomic step (the      *)
(* session commits on normal exit and rolls back on an exception);         *)
(* create_model_version, whose retry loop exists because other sessions    *)
(* commit between its query and its flush, is one step per query and one   *)
(* step per flush.                                                         *)
(***************************************************************************)
EXTENDS Integers, Sequences, FiniteSets, Bags, TLC

(* ---- bounds of the model ---- *)
MaxCalls == 4
MaxCmvCalls == 5
MaxLatestCalls == 9
MaxSearchCalls == 6
MaxClockCalls == 4
\* calls made in the runs that rename a model and register its old name again
MaxRenameCalls == 6

(* ---- program constants ---- *)
CREATE_MODEL_VERSION_RETRIES == 3

(* ---- value domains ---- *)
Null == "<None>"
Callers == {1, 2}
Names == {"A", "B"}
NameArgs == Names \cup {"", Null}
Provenance == {<<"s1", "r1">>, <<"s2", "r2">>}
Descriptions == {"d"}
Versions == 1..2
\* the version arguments of the calls on a model with many versions
ManyVersions == 1..4
\* int(time.time() * 1000), as read by a call
Times == {1}
\* the same, for calls that are made at different times
Clock == {1, 2}

STAGE_NONE == "None"
STAGE_STAGING == "Staging"
STAGE_PRODUCTION == "Production"
STAGE_ARCHIVED == "Archived"
ALL_STAGES == {STAGE_NONE, STAGE_STAGING, STAGE_PRODUCTION, STAGE_ARCHIVED}
StageArgs == {"staging", "Production", "bogus"}
\* the stages argument of get_latest_versions: a list of stage texts, or None
StageLists == {Null, <<>>, <<"staging">>, <<"Production", "None">>, <<"bogus">>}

\* filter strings, as the tokens they are made of
FilterKeys == {"name", "source_path", "run_id", "version"}
Comparators == {"=", "!="}
\* a quoted value, and the value it denotes
QuotedValues == {<<"'A'", "A">>, <<"\"B\"", "B">>, <<"'s1'", "s1">>, <<"\"r2\"", "r2">>}
Filters ==
    {<<>>, <<"name", "=", "'A'", "and", "run_id", "=", "\"r2\"">>,
     <<"name", "=", "'A'", "or", "name", "=", "\"B\"">>}
    \cup {<<k, c, q[1]>> : k \in FilterKeys, c \in Comparators, q \in QuotedValues}
\* the read arguments that the calls of Next are drawn from: one of each shape
SomeStageLists == {Null, <<"bogus">>}
SomeFilters ==
    {<<>>, <<"name", "=", "'A'">>, <<"run_id", "!=", "\"r2\"">>,
     <<"name", "=", "'A'", "and", "run_id", "=", "\"r2\"">>}

OK == "OK"
INVALID_PARAMETER_VALUE == "INVALID_PARAMETER_VALUE"
RESOURCE_ALREADY_EXISTS == "RESOURCE_ALREADY_EXISTS"
RESOURCE_DOES_NOT_EXIST == "RESOURCE_DOES_NOT_EXIST"
INVALID_STATE == "INVALID_STATE"
GIVING_UP == "GIVING_UP"

VARIABLES
    registered_models,  \* table registered_models: bag of rows
    model_versions,     \* table model_versions: bag of rows
    pc,                 \* pc[c]: where caller c is in its create_model_version
    args,               \* args[c]: the arguments and locals of that call
    last,               \* the call that completed last, with its outcome
    returned,           \* history: <<name, version>> of every version returned
    ncalls              \* number of calls started

vars == <<registered_models, model_versions, pc, args, last, returned, ncalls>>
tables == <<registered_models, model_versions>>

NoArgs == [op |-> "none"]
NoCall == [op |-> "none", status |-> "none"]

(* ---- rows and queries ---- *)
Max(S) == CHOOSE x \in S : \A y \in S : y <= x

Row(bag) == BagToSet(bag)

\* session.query(SqlRegisteredModel).filter(name == name).all(), as a bag
QueryRegisteredModels(rms, name) ==
    [r \in {x \in Row(rms) : x.name = name} |-> rms[r]]

\* session.query(SqlModelVersion).filter(name == name, version == version).all()
QueryModelVersions(mvs, name, version) ==
    [r \in {x \in Row(mvs) : x.name = name /\ x.version = version} |-> mvs[r]]

\* sql_registered_model.model_versions: the rows whose name is the model's
ModelVersionsOf(mvs, name) ==
    [r \in {x \in Row(mvs) : x.name = name} |-> mvs[r]]

Replace(bag, old, new) == (bag (-) SetToBag({old})) (+) SetToBag({new})

(* ---- schema constraints checked by a flush ---- *)
\* PrimaryKeyConstraint on registered_models.name
RegisteredModelPkOk(rms) ==
    \A r \in Row(rms) : BagCardinality(QueryRegisteredModels(rms, r.name)) = 1

\* PrimaryKeyConstraint on model_versions (name, version)
ModelVersionPkOk(mvs) ==
    \A r \in Row(mvs) : BagCardinality(QueryModelVersions(mvs, r.name, r.version)) = 1

\* ForeignKey model_versions.name -> registered_models.name, checked on insert
ModelVersionFkOk(rms, row) ==
    \E m \in Row(rms) : m.name = row.name

(* ---- call protocol ---- *)
Idle(c) == pc[c] = "idle"

\* a caller that is not inside a call starts one
Begin(c) ==
    /\ Idle(c)
    /\ ncalls' = ncalls + 1

\* a call that is one step of the store: which caller makes it is not recorded
BeginAtomic == \E c \in Callers : Begin(c)

\* the call returns or raises inside its managed session: a is the call,
\* status its error code or OK
Complete(a, status, value) ==
    last' = [op |-> a.op, args |-> a, status |-> status, value |-> value,
             sessions |-> 1]

\* the call raises before it opens a session
Reject(a, status) ==
    last' = [op |-> a.op, args |-> a, status |-> status, value |-> Null,
             sessions |-> 0]

Init ==
    /\ registered_models = EmptyBag
    /\ model_versions = EmptyBag
    /\ pc = [c \in Callers |-> "idle"]
    /\ args = [c \in Callers |-> NoArgs]
    /\ last = NoCall
    /\ returned = EmptyBag
    /\ ncalls = 0

(* ---- create_registered_model ---- *)
\* a row whose last_updated_time is not set from the clock
NewRegisteredModel_no_update_time(name, now) ==
    [name |-> name, creation_time |-> now, last_updated_time |-> 0,
     description |-> Null]

\* lines 112-114
NewRegisteredModel(name, now) ==
    [name |-> name, creation_time |-> now, last_updated_time |-> now,
     description |-> Null]

\* session.merge in place of session.add: a row of that name is replaced
MergedRegisteredModel(rms, row) ==
    (rms (-) QueryRegisteredModels(rms, row.name)) (+) SetToBag({row})

\* line 115, _save_to_db: session.add of the new row
SavedRegisteredModel(rms, row) == rms (+) SetToBag({row})

\* a check of the name that lets the empty string through
create_registered_model_none_only(name, now) ==
    LET call == [op |-> "create_registered_model", name |-> name]
        rms == SavedRegisteredModel(registered_models, NewRegisteredModel(name, now))
    IN  /\ BeginAtomic
        /\ IF name = Null
           THEN /\ Reject(call, INVALID_PARAMETER_VALUE)
                /\ UNCHANGED tables
           ELSE IF RegisteredModelPkOk(rms)
           THEN /\ registered_models' = rms
                /\ UNCHANGED model_versions
                /\ Complete(call, OK, [name |-> name])
           ELSE /\ Complete(call, RESOURCE_ALREADY_EXISTS, Null)
                /\ UNCHANGED tables
        /\ UNCHANGED <<pc, args, returned>>

create_registered_model(name, now) ==
    LET call == [op |-> "create_registered_model", name |-> name]
        rms == SavedRegisteredModel(registered_models, NewRegisteredModel(name, now))
    IN  /\ BeginAtomic
        /\ IF name = Null \/ name = ""
           THEN /\ Reject(call, INVALID_PARAMETER_VALUE)
                /\ UNCHANGED tables
           ELSE IF RegisteredModelPkOk(rms)
           THEN /\ registered_models' = rms
                /\ UNCHANGED model_versions
                /\ Complete(call, OK, [name |-> name])
           ELSE /\ Complete(call, RESOURCE_ALREADY_EXISTS, Null)
                /\ UNCHANGED tables
        /\ UNCHANGED <<pc, args, returned>>

\* _get_registered_model: exactly one row, else NotFound / InvalidState
_get_registered_model(rms, name) ==
    LET found == QueryRegisteredModels(rms, name)
    IN  IF BagCardinality(found) = 0
        THEN [status |-> RESOURCE_DOES_NOT_EXIST, row |-> Null]
        ELSE IF BagCardinality(found) > 1
        THEN [status |-> INVALID_STATE, row |-> Null]
        ELSE [status |-> OK, row |-> CHOOSE r \in DOMAIN found : TRUE]

(* ---- entities returned to the caller ---- *)
\* latest_versions of the detailed entity: per stage, the highest version
LatestVersions(mvs, name) ==
    {r \in Row(mvs) : /\ r.name = name
                      /\ \A o \in Row(mvs) :
                            (o.name = name /\ o.current_stage = r.current_stage)
                                => o.version <= r.version}

RegisteredModelDetailed(row, mvs) ==
    [name |-> row.name, creation_time |-> row.creation_time,
     last_updated_time |-> row.last_updated_time, description |-> row.description,
     latest_versions |-> LatestVersions(mvs, row.name)]

(* ---- update_registered_model ---- *)
\* a description that is assigned whether or not one was given
RenamedModelRow_overwrites(row, new_name, description) ==
    [row EXCEPT !.name = IF new_name # Null THEN new_name ELSE @,
                !.description = description]

\* lines 149-150, 153-154: the fields the call sets on the model row
RenamedModelRow(row, new_name, description) ==
    [row EXCEPT !.name = IF new_name # Null THEN new_name ELSE @,
                !.description = IF description # Null THEN description ELSE @]

\* a rename that builds the version row anew under the new name
RenamedVersionRow_rebuilt(row, new_name) ==
    IF new_name # Null
    THEN [name |-> new_name, version |-> row.version,
          creation_time |-> row.creation_time,
          last_updated_time |-> row.last_updated_time, source |-> row.source,
          run_id |-> row.run_id, current_stage |-> STAGE_NONE, description |-> Null]
    ELSE row

\* lines 151-152: the name set on one of the model's version rows
RenamedVersionRow(row, new_name) ==
    [row EXCEPT !.name = IF new_name # Null THEN new_name ELSE @]

\* a rename that leaves the version rows alone
RenamedVersions_not_cascaded(mvs, old_name, new_name) == mvs

\* the model_versions table after the version rows of old_name are rewritten
RenamedVersions(mvs, old_name, new_name) ==
    LET mine == ModelVersionsOf(mvs, old_name)
        moved == {RenamedVersionRow(r, new_name) : r \in DOMAIN mine}
    IN  (mvs (-) mine) (+)
        [n \in moved |->
            BagCardinality([r \in {x \in DOMAIN mine : RenamedVersionRow(x, new_name) = n}
                                |-> mine[r]])]

\* a handler that swallows the IntegrityError and returns the entity
urm_conflict_swallowed(call) ==
    /\ Complete(call, OK, [name |-> call.new_name])
    /\ UNCHANGED tables

\* lines 159-161: the IntegrityError of the flush becomes AlreadyExists, and
\* the session rolls back
urm_conflict(call) ==
    /\ Complete(call, RESOURCE_ALREADY_EXISTS, Null)
    /\ UNCHANGED tables

update_registered_model(name, new_name, description) ==
    LET call == [op |-> "update_registered_model", name |-> name,
                 new_name |-> new_name, description |-> description]
        got == _get_registered_model(registered_models, name)
        row == RenamedModelRow(got.row, new_name, description)
        rms == Replace(registered_models, got.row, row)
        mvs == RenamedVersions(model_versions, name, new_name)
    IN  /\ BeginAtomic
        /\ IF got.status # OK
           THEN /\ Complete(call, got.status, Null)
                /\ UNCHANGED tables
           ELSE IF RegisteredModelPkOk(rms) /\ ModelVersionPkOk(mvs)
           THEN /\ registered_models' = rms
                /\ model_versions' = mvs
                /\ Complete(call, OK, [name |-> row.name])
           ELSE urm_conflict(call)
        /\ UNCHANGED <<pc, args, returned>>

(* ---- delete_registered_model ---- *)
\* session.delete of the model row and, by the relationship's cascade, of
\* its version rows
DeletedVersions(mvs, name) == mvs (-) ModelVersionsOf(mvs, name)

\* a bulk DELETE of the model row, which the relationship's cascade misses
delete_registered_model_row_only(name) ==
    LET call == [op |-> "delete_registered_model", name |-> name]
        got == _get_registered_model(registered_models, name)
    IN  /\ BeginAtomic
        /\ IF got.status # OK
           THEN /\ Complete(call, got.status, Null)
                /\ UNCHANGED tables
           ELSE /\ registered_models' = registered_models (-) SetToBag({got.row})
                /\ UNCHANGED model_versions
                /\ Complete(call, OK, Null)
        /\ UNCHANGED <<pc, args, returned>>

delete_registered_model(name) ==
    LET call == [op |-> "delete_registered_model", name |-> name]
        got == _get_registered_model(registered_models, name)
    IN  /\ BeginAtomic
        /\ IF got.status # OK
           THEN /\ Complete(call, got.status, Null)
                /\ UNCHANGED tables
           ELSE /\ registered_models' = registered_models (-) SetToBag({got.row})
                /\ model_versions' = DeletedVersions(model_versions, name)
                /\ Complete(call, OK, Null)
        /\ UNCHANGED <<pc, args, returned>>

(* ---- get_registered_model_details ---- *)
get_registered_model_details(name) ==
    LET call == [op |-> "get_registered_model_details", name |-> name]
        got == _get_registered_model(registered_models, name)
    IN  /\ BeginAtomic
        /\ IF got.status # OK
           THEN Complete(call, got.status, Null)
           ELSE Complete(call, OK, RegisteredModelDetailed(got.row, model_versions))
        /\ UNCHANGED <<registered_models, model_versions, pc, args, returned>>

(* ---- create_model_version ---- *)
\* a numbering that starts at 0
next_version_zero_based(versions) ==
    IF versions # EmptyBag
    THEN Max({mv.version : mv \in DOMAIN versions}) + 1
    ELSE 0

\* lines 231-235
next_version(versions) ==
    IF versions # EmptyBag
    THEN Max({mv.version : mv \in DOMAIN versions}) + 1
    ELSE 1

\* a version row whose last_updated_time is not set from the clock
NewModelVersion_no_update_time(name, version, now, source, run_id) ==
    [name |-> name, version |-> version, creation_time |-> now,
     last_updated_time |-> 0, source |-> source, run_id |-> run_id,
     current_stage |-> STAGE_NONE, description |-> Null]

\* lines 241-244; current_stage is the column default, description is unset
NewModelVersion(name, version, now, source, run_id) ==
    [name |-> name, version |-> version, creation_time |-> now,
     last_updated_time |-> now, source |-> source, run_id |-> run_id,
     current_stage |-> STAGE_NONE, description |-> Null]

\* lines 236-238: the session is opened, now is read, the loop is entered
create_model_version(c, name, source, run_id, now) ==
    /\ Begin(c)
    /\ args' = [args EXCEPT ![c] =
                    [op |-> "create_model_version", name |-> name, source |-> source,
                     run_id |-> run_id, now |-> now, attempt |-> 0, version |-> 0]]
    /\ pc' = [pc EXCEPT ![c] = "cmv_query"]
    /\ UNCHANGED <<registered_models, model_versions, last, returned>>

\* the call leaves the session and hands its outcome to the caller
CmvComplete(c, a, status, value) ==
    /\ Complete(a, status, value)
    /\ pc' = [pc EXCEPT ![c] = "idle"]
    /\ args' = [args EXCEPT ![c] = NoArgs]

\* a loop that takes the failed lookup for a failed attempt
cmv_query_retries_lookup(c) ==
    LET a == args[c]
        got == _get_registered_model(registered_models, a.name)
        failed == [a EXCEPT !.attempt = @ + 1]
    IN  /\ pc[c] = "cmv_query"
        /\ IF got.status # OK /\ failed.attempt < CREATE_MODEL_VERSION_RETRIES
           THEN /\ args' = [args EXCEPT ![c] = failed]
                /\ UNCHANGED <<pc, last>>
           ELSE IF got.status # OK
           THEN CmvComplete(c, failed, GIVING_UP,
                            [name |-> a.name, attempts |-> CREATE_MODEL_VERSION_RETRIES])
           ELSE /\ args' = [args EXCEPT ![c].version =
                        next_version(ModelVersionsOf(model_versions, a.name))]
                /\ pc' = [pc EXCEPT ![c] = "cmv_flush"]
                /\ UNCHANGED last
        /\ UNCHANGED <<registered_models, model_versions, returned, ncalls>>

\* lines 240-244: look the model up and number the new version
cmv_query(c) ==
    LET a == args[c]
        got == _get_registered_model(registered_models, a.name)
    IN  /\ pc[c] = "cmv_query"
        /\ IF got.status # OK
           THEN CmvComplete(c, a, got.status, Null)
           ELSE /\ args' = [args EXCEPT ![c].version =
                        next_version(ModelVersionsOf(model_versions, a.name))]
                /\ pc' = [pc EXCEPT ![c] = "cmv_flush"]
                /\ UNCHANGED last
        /\ UNCHANGED <<registered_models, model_versions, returned, ncalls>>

\* the row of lines 241-244 that the call of caller c adds to its session
PendingVersion(c) ==
    NewModelVersion(args[c].name, args[c].version, args[c].now,
                    args[c].source, args[c].run_id)

\* a flush whose IntegrityError is never raised
FlushAccepted_unchecked(c) == TRUE

\* session.flush(): the constraints of model_versions accept the INSERT
FlushAccepted(c) ==
    /\ ModelVersionPkOk(model_versions (+) SetToBag({PendingVersion(c)}))
    /\ ModelVersionFkOk(registered_models, PendingVersion(c))

\* lines 245-247: the row is stored and the new version is returned
cmv_inserted(c) ==
    /\ model_versions' = model_versions (+) SetToBag({PendingVersion(c)})
    /\ returned' = returned (+) SetToBag({<<args[c].name, args[c].version>>})
    /\ CmvComplete(c, args[c], OK,
                   [name |-> args[c].name, version |-> args[c].version])

\* a handler that takes one attempt more than CREATE_MODEL_VERSION_RETRIES
cmv_conflict_one_more(c) ==
    LET failed == [args[c] EXCEPT !.attempt = @ + 1]
    IN  /\ UNCHANGED <<model_versions, returned>>
        /\ IF failed.attempt <= CREATE_MODEL_VERSION_RETRIES
           THEN /\ args' = [args EXCEPT ![c] = failed]
                /\ pc' = [pc EXCEPT ![c] = "cmv_query"]
                /\ UNCHANGED last
           ELSE CmvComplete(c, failed, GIVING_UP,
                            [name |-> args[c].name,
                             attempts |-> CREATE_MODEL_VERSION_RETRIES])

\* a handler that swallows the IntegrityError and returns the entity it built
cmv_conflict_returns(c) ==
    /\ UNCHANGED model_versions
    /\ returned' = returned (+) SetToBag({<<args[c].name, args[c].version>>})
    /\ CmvComplete(c, args[c], OK,
                   [name |-> args[c].name, version |-> args[c].version])

\* a retry of the insert alone, with the number after the one that collided
cmv_conflict_insert_again(c) ==
    LET failed == [args[c] EXCEPT !.attempt = @ + 1]
    IN  /\ UNCHANGED <<model_versions, returned>>
        /\ IF failed.attempt < CREATE_MODEL_VERSION_RETRIES
           THEN /\ args' = [args EXCEPT ![c] = [failed EXCEPT !.version = @ + 1]]
                /\ UNCHANGED <<pc, last>>
           ELSE CmvComplete(c, failed, GIVING_UP,
                            [name |-> args[c].name,
                             attempts |-> CREATE_MODEL_VERSION_RETRIES])

\* lines 248-253: the IntegrityError starts the next attempt, or the loop is
\* left and the call gives up
cmv_conflict(c) ==
    LET failed == [args[c] EXCEPT !.attempt = @ + 1]
    IN  /\ UNCHANGED <<model_versions, returned>>
        /\ IF failed.attempt < CREATE_MODEL_VERSION_RETRIES
           THEN /\ args' = [args EXCEPT ![c] = failed]
                /\ pc' = [pc EXCEPT ![c] = "cmv_query"]
                /\ UNCHANGED last
           ELSE CmvComplete(c, failed, GIVING_UP,
                            [name |-> args[c].name,
                             attempts |-> CREATE_MODEL_VERSION_RETRIES])

\* lines 245-253: add the row and flush
cmv_flush(c) ==
    /\ pc[c] = "cmv_flush"
    /\ IF FlushAccepted(c) THEN cmv_inserted(c) ELSE cmv_conflict(c)
    /\ UNCHANGED <<registered_models, ncalls>>

(* ---- model version lookups and updates ---- *)
\* _get_sql_model_version: exactly one row, else NotFound / InvalidState
_get_sql_model_version(mvs, name, version) ==
    LET found == QueryModelVersions(mvs, name, version)
    IN  IF BagCardinality(found) = 0
        THEN [status |-> RESOURCE_DOES_NOT_EXIST, row |-> Null]
        ELSE IF BagCardinality(found) > 1
        THEN [status |-> INVALID_STATE, row |-> Null]
        ELSE [status |-> OK, row |-> CHOOSE r \in DOMAIN found : TRUE]

\* model_version_stages: stage.lower()
Lower(stage) ==
    CASE stage \in {"None", "none"} -> "none"
      [] stage \in {"Staging", "staging"} -> "staging"
      [] stage \in {"Production", "production"} -> "production"
      [] stage \in {"Archived", "archived"} -> "archived"
      [] OTHER -> stage

_CANONICAL_MAPPING ==
    [k \in {Lower(stage) : stage \in ALL_STAGES} |->
        CHOOSE stage \in ALL_STAGES : Lower(stage) = k]

IsStage(stage) == Lower(stage) \in DOMAIN _CANONICAL_MAPPING

get_canonical_stage(stage) == _CANONICAL_MAPPING[Lower(stage)]

\* the stage text stored as it was given
StagedVersionRow_raw(row, stage) ==
    IF stage # Null THEN [row EXCEPT !.current_stage = stage]
    ELSE row

\* lines 283-284
StagedVersionRow(row, stage) ==
    IF stage # Null THEN [row EXCEPT !.current_stage = get_canonical_stage(stage)]
    ELSE row

\* the description assigned to the wrong column
DescribedVersionRow_as_source(row, description) ==
    IF description # Null THEN [row EXCEPT !.source = description]
    ELSE row

\* lines 285-286
DescribedVersionRow(row, description) ==
    IF description # Null THEN [row EXCEPT !.description = description]
    ELSE row

\* the description is stored and committed before the stage is looked at
update_model_version_description_first(name, version, stage, description) ==
    LET call == [op |-> "update_model_version", name |-> name, version |-> version,
                 stage |-> stage, description |-> description]
        got == _get_sql_model_version(model_versions, name, version)
    IN  /\ BeginAtomic
        /\ IF got.status # OK
           THEN /\ Complete(call, got.status, Null)
                /\ UNCHANGED model_versions
           ELSE IF stage # Null /\ ~IsStage(stage)
           THEN /\ Complete(call, INVALID_PARAMETER_VALUE, Null)
                /\ model_versions' = Replace(model_versions, got.row,
                        DescribedVersionRow(got.row, description))
           ELSE /\ model_versions' = Replace(model_versions, got.row,
                        DescribedVersionRow(StagedVersionRow(got.row, stage), description))
                /\ Complete(call, OK, Null)
        /\ UNCHANGED <<registered_models, pc, args, returned>>

update_model_version(name, version, stage, description) ==
    LET call == [op |-> "update_model_version", name |-> name, version |-> version,
                 stage |-> stage, description |-> description]
        got == _get_sql_model_version(model_versions, name, version)
    IN  /\ BeginAtomic
        /\ IF got.status # OK
           THEN /\ Complete(call, got.status, Null)
                /\ UNCHANGED model_versions
           ELSE IF stage # Null /\ ~IsStage(stage)
           THEN /\ Complete(call, INVALID_PARAMETER_VALUE, Null)
                /\ UNCHANGED model_versions
           ELSE /\ model_versions' = Replace(model_versions, got.row,
                        DescribedVersionRow(StagedVersionRow(got.row, stage), description))
                /\ Complete(call, OK, Null)
        /\ UNCHANGED <<registered_models, pc, args, returned>>

\* a delete of every version that the model has
delete_model_version_of_model(name, version) ==
    LET call == [op |-> "delete_model_version", name |-> name, version |-> version]
        got == _get_sql_model_version(model_versions, name, version)
    IN  /\ BeginAtomic
        /\ IF got.status # OK
           THEN /\ Complete(call, got.status, Null)
                /\ UNCHANGED model_versions
           ELSE /\ model_versions' = model_versions (-) ModelVersionsOf(model_versions, name)
                /\ Complete(call, OK, Null)
        /\ UNCHANGED <<registered_models, pc, args, returned>>

\* a delete that takes an absent version for done
delete_model_version_if_exists(name, version) ==
    LET call == [op |-> "delete_model_version", name |-> name, version |-> version]
        found == QueryModelVersions(model_versions, name, version)
    IN  /\ BeginAtomic
        /\ model_versions' = model_versions (-) found
        /\ Complete(call, OK, Null)
        /\ UNCHANGED <<registered_models, pc, args, returned>>

delete_model_version(name, version) ==
    LET call == [op |-> "delete_model_version", name |-> name, version |-> version]
        got == _get_sql_model_version(model_versions, name, version)
    IN  /\ BeginAtomic
        /\ IF got.status # OK
           THEN /\ Complete(call, got.status, Null)
                /\ UNCHANGED model_versions
           ELSE /\ model_versions' = model_versions (-) SetToBag({got.row})
                /\ Complete(call, OK, Null)
        /\ UNCHANGED <<registered_models, pc, args, returned>>

\* a read that ends like delete_model_version: session.delete of the row
get_model_version_details_deleting(name, version) ==
    LET call == [op |-> "get_model_version_details", name |-> name,
                 version |-> version]
        got == _get_sql_model_version(model_versions, name, version)
    IN  /\ BeginAtomic
        /\ IF got.status # OK
           THEN /\ Complete(call, got.status, Null)
                /\ UNCHANGED model_versions
           ELSE /\ model_versions' = model_versions (-) SetToBag({got.row})
                /\ Complete(call, OK, got.row)
        /\ UNCHANGED <<registered_models, pc, args, returned>>

get_model_version_details(name, version) ==
    LET call == [op |-> "get_model_version_details", name |-> name,
                 version |-> version]
        got == _get_sql_model_version(model_versions, name, version)
    IN  /\ BeginAtomic
        /\ IF got.status # OK
           THEN Complete(call, got.status, Null)
           ELSE Complete(call, OK, got.row)
        /\ UNCHANGED <<registered_models, model_versions, pc, args, returned>>

(* ---- list_registered_models, get_latest_versions ---- *)
list_registered_models ==
    LET call == [op |-> "list_registered_models"]
    IN  /\ BeginAtomic
        /\ Complete(call, OK, {RegisteredModelDetailed(row, model_versions) :
                                   row \in Row(registered_models)})
        /\ UNCHANGED <<registered_models, model_versions, pc, args, returned>>

DEFAULT_STAGES_FOR_GET_LATEST_VERSIONS == <<STAGE_STAGING, STAGE_PRODUCTION>>

\* every stage is asked for
expected_stages_all(stages) == ALL_STAGES

\* lines 210-214: the canonical stages that are asked for
expected_stages(stages) ==
    IF stages = Null \/ Len(stages) = 0
    THEN {get_canonical_stage(DEFAULT_STAGES_FOR_GET_LATEST_VERSIONS[i]) :
            i \in 1..Len(DEFAULT_STAGES_FOR_GET_LATEST_VERSIONS)}
    ELSE {get_canonical_stage(stages[i]) : i \in 1..Len(stages)}

get_latest_versions(name, stages) ==
    LET call == [op |-> "get_latest_versions", name |-> name, stages |-> stages]
        got == _get_registered_model(registered_models, name)
        latest_versions == RegisteredModelDetailed(got.row, model_versions).latest_versions
    IN  /\ BeginAtomic
        /\ IF got.status # OK
           THEN Complete(call, got.status, Null)
           ELSE IF stages # Null /\ \E i \in 1..Len(stages) : ~IsStage(stages[i])
           THEN Complete(call, INVALID_PARAMETER_VALUE, Null)
           ELSE Complete(call, OK, {mv \in latest_versions :
                                      mv.current_stage \in expected_stages(stages)})
        /\ UNCHANGED <<registered_models, model_versions, pc, args, returned>>

(* ---- get_model_version_download_uri ---- *)
\* a download location that is taken from the run of the version
get_model_version_download_uri_of_run(name, version) ==
    LET call == [op |-> "get_model_version_download_uri", name |-> name,
                 version |-> version]
        got == _get_sql_model_version(model_versions, name, version)
    IN  /\ BeginAtomic
        /\ IF got.status # OK
           THEN Complete(call, got.status, Null)
           ELSE Complete(call, OK, got.row.run_id)
        /\ UNCHANGED <<registered_models, model_versions, pc, args, returned>>

get_model_version_download_uri(name, version) ==
    LET call == [op |-> "get_model_version_download_uri", name |-> name,
                 version |-> version]
        got == _get_sql_model_version(model_versions, name, version)
    IN  /\ BeginAtomic
        /\ IF got.status # OK
           THEN Complete(call, got.status, Null)
           ELSE Complete(call, OK, got.row.source)
        /\ UNCHANGED <<registered_models, model_versions, pc, args, returned>>

(* ---- search_model_versions ---- *)
\* the text that a quoted value denotes
Unquote(token) == (CHOOSE q \in QuotedValues : q[1] = token)[2]

\* the clauses of a filter: the comparisons that "and" / "or" join
RECURSIVE SplitClauses(_)
SplitClauses(tokens) ==
    IF Len(tokens) <= 3 THEN <<tokens>>
    ELSE <<SubSeq(tokens, 1, 3)>> \o SplitClauses(SubSeq(tokens, 5, Len(tokens)))

\* SearchUtils.parse_filter_for_model_registry: one dict per clause
parse_filter_for_model_registry(filter_string) ==
    IF Len(filter_string) = 0 THEN <<>>
    ELSE LET clauses == SplitClauses(filter_string)
         IN  [i \in 1..Len(clauses) |->
                [key |-> clauses[i][1], comparator |-> clauses[i][2],
                 value |-> Unquote(clauses[i][3])]]

\* lines 345-350: the column that the key of the clause names
FilterColumn(filter_dict, mv) ==
    CASE filter_dict.key = "name" -> mv.name
      [] filter_dict.key = "source_path" -> mv.source
      [] filter_dict.key = "run_id" -> mv.run_id

\* a search that compares every key with the name column
Conditions_name_only(parsed_filter, mv) ==
    Len(parsed_filter) = 0 \/ mv.name = parsed_filter[1].value

\* lines 337-350: the conditions of the query, as a predicate on a row
Conditions(parsed_filter, mv) ==
    Len(parsed_filter) = 0 \/ FilterColumn(parsed_filter[1], mv) = parsed_filter[1].value

\* lines 362-364: the query, and the one page that holds all of its rows
SearchPage(mvs, parsed_filter) ==
    [items |-> [r \in {mv \in Row(mvs) : Conditions(parsed_filter, mv)} |-> mvs[r]],
     token |-> Null]

\* a store that ignores the clauses after the first
search_model_versions_first_clause(filter_string) ==
    LET call == [op |-> "search_model_versions", filter_string |-> filter_string]
        parsed_filter == parse_filter_for_model_registry(filter_string)
    IN  /\ BeginAtomic
        /\ IF Len(parsed_filter) >= 1 /\ parsed_filter[1].comparator # "="
           THEN Reject(call, INVALID_PARAMETER_VALUE)
           ELSE IF Len(parsed_filter) >= 1
                   /\ parsed_filter[1].key \notin {"name", "source_path", "run_id"}
           THEN Reject(call, INVALID_PARAMETER_VALUE)
           ELSE Complete(call, OK, SearchPage(model_versions, parsed_filter))
        /\ UNCHANGED <<registered_models, model_versions, pc, args, returned>>

search_model_versions(filter_string) ==
    LET call == [op |-> "search_model_versions", filter_string |-> filter_string]
        parsed_filter == parse_filter_for_model_registry(filter_string)
    IN  /\ BeginAtomic
        /\ IF Len(parsed_filter) > 1
           THEN Reject(call, INVALID_PARAMETER_VALUE)
           ELSE IF Len(parsed_filter) = 1 /\ parsed_filter[1].comparator # "="
           THEN Reject(call, INVALID_PARAMETER_VALUE)
           ELSE IF Len(parsed_filter) = 1
                   /\ parsed_filter[1].key \notin {"name", "source_path", "run_id"}
           THEN Reject(call, INVALID_PARAMETER_VALUE)
           ELSE Complete(call, OK, SearchPage(model_versions, parsed_filter))
        /\ UNCHANGED <<registered_models, model_versions, pc, args, returned>>

(* ---- specifications ---- *)
\* fewer than n calls were started
Within(n) == ncalls < n

\* the steps inside a create_model_version call
CmvStep ==
    \/ \E c \in Callers : cmv_query(c)
    \/ \E c \in Callers : cmv_flush(c)

\* every operation, from any caller, in any interleaving
Next ==
    \/ CmvStep
    \/ \E name \in NameArgs, now \in Times :
          Within(MaxCalls) /\ create_registered_model(name, now)
    \/ \E name \in Names, new_name \in NameArgs, description \in Descriptions \cup {Null} :
          Within(MaxCalls) /\ update_registered_model(name, new_name, description)
    \/ \E name \in Names :
          Within(MaxCalls) /\ delete_registered_model(name)
    \/ \E name \in Names :
          Within(MaxCalls) /\ get_registered_model_details(name)
    \/ \E c \in Callers, name \in Names, pv \in Provenance, now \in Times :
          Within(MaxCalls) /\ create_model_version(c, name, pv[1], pv[2], now)
    \/ \E name \in Names, version \in Versions, stage \in StageArgs \cup {Null},
          description \in Descriptions \cup {Null} :
          Within(MaxCalls) /\ update_model_version(name, version, stage, description)
    \/ \E name \in Names, version \in Versions :
          Within(MaxCalls) /\ delete_model_version(name, version)
    \/ \E name \in Names, version \in Versions :
          Within(MaxCalls) /\ get_model_version_details(name, version)
    \/ Within(MaxCalls) /\ list_registered_models
    \/ \E name \in Names, stages \in SomeStageLists :
          Within(MaxCalls) /\ get_latest_versions(name, stages)
    \/ \E name \in Names, version \in Versions :
          Within(MaxCalls) /\ get_model_version_download_uri(name, version)
    \/ \E filter_string \in SomeFilters :
          Within(MaxCalls) /\ search_model_versions(filter_string)

Spec == Init /\ [][Next]_vars

\* no call is in progress
Quiet == \A c \in Callers : Idle(c)

\* one call at a time, and no delete operation
NextSeq ==
    \/ CmvStep
    \/ \E name \in NameArgs, now \in Times :
          Within(MaxCalls) /\ Quiet /\ create_registered_model(name, now)
    \/ \E name \in Names, new_name \in NameArgs, description \in Descriptions \cup {Null} :
          Within(MaxCalls) /\ Quiet
              /\ update_registered_model(name, new_name, description)
    \/ \E c \in Callers, name \in Names, pv \in Provenance, now \in Times :
          Within(MaxCalls) /\ Quiet /\ create_model_version(c, name, pv[1], pv[2], now)
    \/ \E name \in Names, version \in Versions, stage \in StageArgs \cup {Null},
          description \in Descriptions \cup {Null} :
          Within(MaxCalls) /\ Quiet
              /\ update_model_version(name, version, stage, description)

SpecSeq == Init /\ [][NextSeq]_vars

\* concurrent create_model_version calls on the models that were registered
NextCmv ==
    \/ CmvStep
    \/ \E name \in Names, now \in Times :
          Within(MaxCmvCalls) /\ create_registered_model(name, now)
    \/ \E c \in Callers, name \in Names, pv \in Provenance, now \in Times :
          Within(MaxCmvCalls) /\ create_model_version(c, name, pv[1], pv[2], now)

SpecCmv == Init /\ [][NextCmv]_vars

\* a caller inside create_model_version keeps running
FairSpecCmv ==
    /\ SpecCmv
    /\ \A c \in Callers : WF_vars(cmv_query(c)) /\ WF_vars(cmv_flush(c))

\* one client that creates the versions of one model, moves them between
\* stages, deletes some and asks for the latest ones
NextLatest ==
    \/ cmv_query(1)
    \/ cmv_flush(1)
    \/ \E now \in Times :
          Within(MaxLatestCalls) /\ Quiet /\ create_registered_model("A", now)
    \/ \E now \in Times :
          Within(MaxLatestCalls) /\ Quiet /\ create_model_version(1, "A", "s1", "r1", now)
    \/ \E version \in ManyVersions, stage \in {"staging", "Production"} :
          Within(MaxLatestCalls) /\ Quiet
              /\ update_model_version("A", version, stage, Null)
    \/ \E version \in ManyVersions :
          Within(MaxLatestCalls) /\ Quiet /\ delete_model_version("A", version)
    \/ \E stages \in StageLists :
          Within(MaxLatestCalls) /\ Quiet /\ get_latest_versions("A", stages)

SpecLatest == Init /\ [][NextLatest]_vars

\* one client that registers models, creates and deletes versions, and
\* searches them with every filter
NextSearch ==
    \/ cmv_query(1)
    \/ cmv_flush(1)
    \/ \E name \in Names, now \in Times :
          Within(MaxSearchCalls) /\ Quiet /\ create_registered_model(name, now)
    \/ \E name \in Names, pv \in Provenance, now \in Times :
          Within(MaxSearchCalls) /\ Quiet
              /\ create_model_version(1, name, pv[1], pv[2], now)
    \/ \E name \in Names, version \in Versions :
          Within(MaxSearchCalls) /\ Quiet /\ delete_model_version(name, version)
    \/ \E filter_string \in Filters :
          Within(MaxSearchCalls) /\ Quiet /\ search_model_versions(filter_string)

SpecSearch == Init /\ [][NextSearch]_vars

\* one client whose calls are made at different times
NextClock ==
    \/ cmv_query(1)
    \/ cmv_flush(1)
    \/ \E name \in NameArgs, now \in Clock :
          Within(MaxClockCalls) /\ Quiet /\ create_registered_model(name, now)
    \/ \E name \in Names, new_name \in Names \cup {Null},
          description \in Descriptions \cup {Null} :
          Within(MaxClockCalls) /\ Quiet
              /\ update_registered_model(name, new_name, description)
    \/ \E name \in Names :
          Within(MaxClockCalls) /\ Quiet /\ delete_registered_model(name)
    \/ \E name \in Names :
          Within(MaxClockCalls) /\ Quiet /\ get_registered_model_details(name)
    \/ \E name \in Names, pv \in Provenance, now \in Clock :
          Within(MaxClockCalls) /\ Quiet
              /\ create_model_version(1, name, pv[1], pv[2], now)
    \/ \E name \in Names, version \in Versions, stage \in StageArgs \cup {Null},
          description \in Descriptions \cup {Null} :
          Within(MaxClockCalls) /\ Quiet
              /\ update_model_version(name, version, stage, description)
    \/ \E name \in Names, version \in Versions :
          Within(MaxClockCalls) /\ Quiet /\ delete_model_version(name, version)

SpecClock == Init /\ [][NextClock]_vars

\* one client that registers models, creates versions, renames models and
\* reads their details
NextRename ==
    \/ cmv_query(1)
    \/ cmv_flush(1)
    \/ \E name \in Names, now \in Times :
          Within(MaxRenameCalls) /\ Quiet /\ create_registered_model(name, now)
    \/ \E name \in Names, new_name \in Names :
          Within(MaxRenameCalls) /\ Quiet
              /\ update_registered_model(name, new_name, Null)
    \/ \E name \in Names :
          Within(MaxRenameCalls) /\ Quiet /\ get_registered_model_details(name)
    \/ \E name \in Names, pv \in Provenance, now \in Times :
          Within(MaxRenameCalls) /\ Quiet
              /\ create_model_version(1, name, pv[1], pv[2], now)

SpecRename == Init /\ [][NextRename]_vars

(* ---- properties ---- *)
\* caller c returns from create_model_version with a new version in this step
CmvReturns(c) == pc[c] = "cmv_flush" /\ pc'[c] = "idle" /\ last'.status = OK

\* the last call that completed is a create_model_version that returned
CmvReturned == last.op = "create_model_version" /\ last.status = OK

\* C1: with one call at a time and no delete, the k-th create_model_version
\* on a model returns version k, which is max(existing versions) + 1, or 1
\* when the model has no version
C1_SequentialVersions ==
    [][\A c \in Callers : CmvReturns(c) =>
        LET mine == ModelVersionsOf(model_versions, args[c].name)
            existing == {mv.version : mv \in DOMAIN mine}
            k == BagCardinality(mine) + 1
        IN  /\ last'.value.name = args[c].name
            /\ last'.value.version = k
            /\ existing = 1..(k - 1)
            /\ last'.value.version = IF existing = {} THEN 1 ELSE Max(existing) + 1
    ]_vars

C1_Witness == CmvReturned /\ last.value.version = 3

\* C2: whatever the interleaving of concurrent create_model_version calls, no
\* (name, version) is returned twice and no two rows of model_versions share
\* their (name, version)
C2_UniqueVersions ==
    /\ \A nv \in DOMAIN returned : returned[nv] = 1
    /\ \A r \in Row(model_versions) :
          BagCardinality(QueryModelVersions(model_versions, r.name, r.version)) = 1

\* a call that lost the race on a version and then returned another one
C2_Witness ==
    /\ CmvReturned
    /\ last.args.attempt > 0
    /\ \E nv \in DOMAIN returned : nv[1] = last.args.name /\ nv[2] # last.value.version

\* C3: create_model_version makes at most CREATE_MODEL_VERSION_RETRIES insert
\* attempts; when the last of them conflicts too the call ends with the
\* giving-up error that names the model and the attempt count, returns no
\* version and stores no row; the call always ends, and never returns a
\* version that was returned before
C3_BoundedRetries ==
    /\ [](\A c \in Callers :
            pc[c] # "idle" => args[c].attempt < CREATE_MODEL_VERSION_RETRIES)
    /\ [](\A nv \in DOMAIN returned : returned[nv] = 1)
    /\ [][\A c \in Callers :
            (pc[c] = "cmv_flush" /\ pc'[c] # "cmv_flush" /\ ~FlushAccepted(c)) =>
                /\ UNCHANGED <<registered_models, model_versions, returned>>
                /\ IF args[c].attempt + 1 = CREATE_MODEL_VERSION_RETRIES
                   THEN /\ pc'[c] = "idle"
                        /\ last'.op = "create_model_version"
                        /\ last'.status = GIVING_UP
                        /\ last'.value = [name |-> args[c].name,
                                          attempts |-> CREATE_MODEL_VERSION_RETRIES]
                   ELSE /\ pc'[c] = "cmv_query"
                        /\ args'[c].attempt = args[c].attempt + 1
       ]_vars
    /\ \A c \in Callers : (pc[c] # "idle") ~> (pc[c] = "idle")

C3_Witness ==
    /\ last.op = "create_model_version"
    /\ last.status = GIVING_UP
    /\ last.args.attempt = CREATE_MODEL_VERSION_RETRIES
\* a call that is one step of the store completes in this step
AtomicStep(op) == ncalls' = ncalls + 1 /\ pc' = pc /\ last'.op = op

\* C4: a create_registered_model for a name that is registered fails with
\* AlreadyExists and changes nothing; for a name that is not, it succeeds;
\* either way exactly one row of that name is stored afterwards
C4_DuplicateNameRejected ==
    [][(AtomicStep("create_registered_model") /\ last'.args.name \notin {Null, ""}) =>
        LET name == last'.args.name
        IN  /\ IF QueryRegisteredModels(registered_models, name) # EmptyBag
               THEN last'.status = RESOURCE_ALREADY_EXISTS /\ UNCHANGED tables
               ELSE last'.status = OK
            /\ BagCardinality(QueryRegisteredModels(registered_models', name)) = 1
    ]_vars

\* the second create of a name, whose first row was given a description since
C4_Witness ==
    /\ last.op = "create_registered_model"
    /\ last.status = RESOURCE_ALREADY_EXISTS
    /\ \E r \in Row(registered_models) :
          r.name = last.args.name /\ r.description # Null

\* C5: every row of model_versions has the name of a row of registered_models
C5_NoOrphanVersion ==
    \A v \in Row(model_versions) : \E m \in Row(registered_models) : m.name = v.name

\* a model that has versions was renamed
C5_Witness ==
    /\ last.op = "update_registered_model"
    /\ last.status = OK
    /\ last.args.new_name \notin {Null, last.args.name}
    /\ ModelVersionsOf(model_versions, last.args.new_name) # EmptyBag

\* a rename to new_name succeeds in this step
RenameSucceeds ==
    /\ AtomicStep("update_registered_model")
    /\ last'.status = OK
    /\ last'.args.new_name # Null

\* every version of the old name is found as (new_name, version), with its
\* version, source, run_id and stage
VersionsCarried(old_name, new_name) ==
    \A r \in Row(ModelVersionsOf(model_versions, old_name)) :
        LET got == _get_sql_model_version(model_versions', new_name, r.version)
        IN  /\ got.status = OK
            /\ got.row.name = new_name
            /\ got.row.version = r.version
            /\ got.row.source = r.source
            /\ got.row.run_id = r.run_id
            /\ got.row.current_stage = r.current_stage

\* C6 as stated: after a successful rename to X every version of the old name
\* is found unchanged under (X, version) and no version is left under the old
\* name
C6_Original ==
    [][RenameSucceeds =>
        /\ VersionsCarried(last'.args.name, last'.args.new_name)
        /\ ModelVersionsOf(model_versions', last'.args.name) = EmptyBag
    ]_vars

\* C6, amended: after a successful rename to X every version of the old name
\* is found unchanged under (X, version), and when X is not the old name no
\* version is left under the old name
C6_RenameCarriesVersions ==
    [][RenameSucceeds =>
        /\ VersionsCarried(last'.args.name, last'.args.new_name)
        /\ last'.args.new_name # last'.args.name =>
              ModelVersionsOf(model_versions', last'.args.name) = EmptyBag
    ]_vars

\* a model was renamed whose version had been given a stage
C6_Witness ==
    /\ last.op = "update_registered_model"
    /\ last.status = OK
    /\ last.args.new_name \notin {Null, last.args.name}
    /\ \E r \in Row(ModelVersionsOf(model_versions, last.args.new_name)) :
          r.current_stage # STAGE_NONE

\* C7: a rename of a registered model to the name of another registered model
\* fails with AlreadyExists and leaves both tables as they were
C7_RenameCollision ==
    [][(/\ AtomicStep("update_registered_model")
        /\ last'.args.new_name \notin {Null, last'.args.name}
        /\ QueryRegisteredModels(registered_models, last'.args.name) # EmptyBag
        /\ QueryRegisteredModels(registered_models, last'.args.new_name) # EmptyBag) =>
            /\ last'.status = RESOURCE_ALREADY_EXISTS
            /\ UNCHANGED tables
    ]_vars

\* the rename that collided was of a model with versions
C7_Witness ==
    /\ last.op = "update_registered_model"
    /\ last.status = RESOURCE_ALREADY_EXISTS
    /\ ModelVersionsOf(model_versions, last.args.name) # EmptyBag

\* C8: after a successful delete_registered_model no version row has the
\* model's name, the lookup of each of its former versions is NotFound, and
\* the lookup of the model is NotFound
C8_DeleteRemovesVersions ==
    [][(AtomicStep("delete_registered_model") /\ last'.status = OK) =>
        LET name == last'.args.name
        IN  /\ ModelVersionsOf(model_versions', name) = EmptyBag
            /\ \A r \in Row(ModelVersionsOf(model_versions, name)) :
                  _get_sql_model_version(model_versions', name, r.version).status
                      = RESOURCE_DOES_NOT_EXIST
            /\ _get_registered_model(registered_models', name).status
                  = RESOURCE_DOES_NOT_EXIST
    ]_vars

\* a model was deleted under whose name a version had been created
C8_Witness ==
    /\ last.op = "delete_registered_model"
    /\ last.status = OK
    /\ \E nv \in DOMAIN returned : nv[1] = last.args.name

\* C9: update_model_version of a stored version with a stage text that is no
\* stage fails with InvalidArgument and leaves the row (stage and description)
\* as it was, whether or not a description is given
C9_InvalidStageRejected ==
    [][(/\ AtomicStep("update_model_version")
        /\ last'.args.stage # Null
        /\ ~IsStage(last'.args.stage)
        /\ QueryModelVersions(model_versions, last'.args.name, last'.args.version)
              # EmptyBag) =>
            /\ last'.status = INVALID_PARAMETER_VALUE
            /\ UNCHANGED tables
    ]_vars

\* the rejected call carried a description
C9_Witness ==
    /\ last.op = "update_model_version"
    /\ last.status = INVALID_PARAMETER_VALUE
    /\ last.args.description # Null

\* C10: the current_stage of every stored version is one of ALL_STAGES, and a
\* version that was just created has the stage None
C10_CanonicalStages ==
    /\ \A r \in Row(model_versions) : r.current_stage \in ALL_STAGES
    /\ CmvReturned =>
          \A r \in Row(QueryModelVersions(model_versions, last.value.name,
                                          last.value.version)) :
              r.current_stage = STAGE_NONE

\* a stage given in lower case was stored in its canonical form
C10_Witness ==
    /\ last.op = "update_model_version"
    /\ last.status = OK
    /\ last.args.stage = "staging"
    /\ \E r \in Row(QueryModelVersions(model_versions, last.args.name,
                                       last.args.version)) :
          r.current_stage = STAGE_STAGING

\* the stages a get_latest_versions call asks for: the canonical stages of
\* the texts it was given, Staging and Production when it was given none
RequestedStages(stages) ==
    IF stages = Null \/ stages = <<>>
    THEN {STAGE_STAGING, STAGE_PRODUCTION}
    ELSE {s \in ALL_STAGES : \E i \in 1..Len(stages) : Lower(stages[i]) = Lower(s)}

\* the stored versions of the model that are in the stage
VersionsInStage(name, stage) ==
    {r \in Row(model_versions) : r.name = name /\ r.current_stage = stage}

VersionsWith(key, value) ==
    LET matching == {r \in Row(model_versions) :
                        \/ key = "name" /\ r.name = value
                        \/ key = "source_path" /\ r.source = value
                        \/ key = "run_id" /\ r.run_id = value}
    IN  [r \in matching |-> model_versions[r]]

\* C12: a search whose filter is one equality on name, source_path or run_id
\* returns exactly the stored versions whose name, source or run_id is the
\* quoted value, and a search with the empty filter returns every stored
\* version
C12_SearchExact ==
    [][AtomicStep("search_model_versions") =>
        LET f == last'.args.filter_string
        IN  /\ f = <<>> =>
                  last'.status = OK /\ last'.value.items = model_versions
            /\ \A key \in {"name", "source_path", "run_id"}, q \in QuotedValues :
                  f = <<key, "=", q[1]>> =>
                      /\ last'.status = OK
                      /\ last'.value.items = VersionsWith(key, q[2])
    ]_vars

\* a search by source that returned versions of two models and left a
\* version with another source out
C12_Witness ==
    /\ last.op = "search_model_versions"
    /\ last.status = OK
    /\ last.args.filter_string = <<"source_path", "=", "'s1'">>
    /\ Cardinality({r.name : r \in DOMAIN last.value.items}) = 2
    /\ \E r \in Row(model_versions) : r \notin DOMAIN last.value.items

\* the filter has more than one clause, a comparator that is not "=", or a
\* key that is none of name, source_path and run_id
UnsupportedFilter(f) ==
    \/ Len(f) > 3
    \/ Len(f) = 3 /\ f[2] # "="
    \/ Len(f) = 3 /\ f[1] \notin {"name", "source_path", "run_id"}

\* C13: a search with an unsupported filter fails with InvalidArgument,
\* returns nothing, opens no session and leaves both tables as they were
C13_SearchRejected ==
    [][(AtomicStep("search_model_versions")
            /\ UnsupportedFilter(last'.args.filter_string)) =>
        /\ last'.status = INVALID_PARAMETER_VALUE
        /\ last'.value = Null
        /\ last'.sessions = 0
        /\ UNCHANGED tables
    ]_vars

\* the filter with two clauses was rejected while a version that matches both
\* of them was stored
C13_Witness ==
    /\ last.op = "search_model_versions"
    /\ last.status = INVALID_PARAMETER_VALUE
    /\ last.args.filter_string
          = <<"name", "=", "'A'", "and", "run_id", "=", "\"r2\"">>
    /\ \E r \in Row(model_versions) : r.name = "A" /\ r.run_id = "r2"

\* C14: create_registered_model of a non-empty name that is not registered
\* succeeds, and a get_registered_model_details of that name that follows it
\* returns a model of that name with no version and with creation_time equal
\* to last_updated_time
C14_CreateThenDetails ==
    /\ [][(/\ AtomicStep("create_registered_model")
            /\ last'.args.name \notin {Null, ""}
            /\ QueryRegisteredModels(registered_models, last'.args.name) = EmptyBag) =>
                last'.status = OK
       ]_vars
    /\ [][(/\ AtomicStep("get_registered_model_details")
            /\ last.op = "create_registered_model"
            /\ last.status = OK
            /\ last.args.name = last'.args.name) =>
                /\ last'.status = OK
                /\ last'.value.name = last.args.name
                /\ last'.value.latest_versions = {}
                /\ ModelVersionsOf(model_versions, last.args.name) = EmptyBag
                /\ last'.value.creation_time = last'.value.last_updated_time
       ]_vars

\* the details of a model right after it was created, as the second call on
\* the store, at the later time
C14_Witness ==
    /\ ncalls = 2
    /\ last.op = "get_registered_model_details"
    /\ last.status = OK
    /\ last.value.creation_time = 2

\* C15: create_registered_model with the empty string or None for a name
\* fails with InvalidArgument without opening a session, and stores no row
C15_EmptyNameRejected ==
    [][(AtomicStep("create_registered_model") /\ last'.args.name \in {Null, ""}) =>
        /\ last'.status = INVALID_PARAMETER_VALUE
        /\ last'.sessions = 0
        /\ UNCHANGED tables
    ]_vars

\* the empty name was rejected by a store that holds a model
C15_Witness ==
    /\ last.op = "create_registered_model"
    /\ last.status = INVALID_PARAMETER_VALUE
    /\ last.args.name = ""
    /\ registered_models # EmptyBag

\* C16: the name of every row of registered_models is a non-empty string
C16_NonEmptyNames ==
    \A r \in Row(registered_models) : r.name # Null /\ r.name # ""

\* C17: the version that a create_model_version returns is greater than
\* every version that was returned under that name before, whatever calls,
\* delete_model_version included, were made in between
C17_VersionsNeverReused ==
    [][\A c \in Callers : CmvReturns(c) =>
        \A nv \in DOMAIN returned :
            nv[1] = last'.value.name => nv[2] < last'.value.version
    ]_vars

\* the name under which the version row r is stored after this step: the new
\* name when the step renames its model, else its own
NameAfterStep(r) ==
    IF RenameSucceeds /\ last'.args.name = r.name
    THEN last'.args.new_name
    ELSE r.name

\* this step deletes the version row r, or the model it belongs to
DeletedInStep(r) ==
    \/ /\ AtomicStep("delete_model_version")
       /\ last'.status = OK
       /\ last'.args.name = r.name
       /\ last'.args.version = r.version
    \/ /\ AtomicStep("delete_registered_model")
       /\ last'.status = OK
       /\ last'.args.name = r.name

\* C18: no step of the store changes the version number, source, run_id or
\* creation_time of a stored version (a step keeps the row, under its name or
\* the name its model is renamed to, or deletes it); and update_model_version
\* changes at most current_stage and description of the row it addresses,
\* and no other row of either table
C18_VersionFrame ==
    /\ [][\A r \in Row(model_versions) :
            LET after == QueryModelVersions(model_versions', NameAfterStep(r), r.version)
            IN  IF DeletedInStep(r)
                THEN after = EmptyBag
                ELSE /\ BagCardinality(after) = model_versions[r]
                     /\ \A p \in DOMAIN after :
                           /\ p.version = r.version
                           /\ p.source = r.source
                           /\ p.run_id = r.run_id
                           /\ p.creation_time = r.creation_time
       ]_vars
    /\ [][AtomicStep("update_model_version") =>
            LET a == last'.args
                before == QueryModelVersions(model_versions, a.name, a.version)
                after == QueryModelVersions(model_versions', a.name, a.version)
            IN  /\ registered_models' = registered_models
                /\ model_versions' (-) after = model_versions (-) before
                /\ BagCardinality(after) = BagCardinality(before)
                /\ \A r \in DOMAIN before : \A p \in DOMAIN after :
                      [p EXCEPT !.current_stage = r.current_stage,
                                !.description = r.description] = r
       ]_vars

\* stage and description of one version were set while the model had another
\* version, created at another time
C18_Witness ==
    /\ last.op = "update_model_version"
    /\ last.status = OK
    /\ \E r, o \in Row(ModelVersionsOf(model_versions, last.args.name)) :
          /\ r.version = last.args.version
          /\ r.current_stage = STAGE_PRODUCTION
          /\ r.description = "d"
          /\ o.version # r.version
          /\ o.creation_time # r.creation_time

\* C19: when the lookup of a create_model_version finds no model of the name,
\* the call ends there with NotFound: no further attempt is made (for a name
\* that is not registered when the call starts, that is the first attempt),
\* and neither table changes
C19_UnknownModelNotRetried ==
    [][\A c \in Callers :
        (/\ pc[c] = "cmv_query"
         /\ args'[c] # args[c]
         /\ QueryRegisteredModels(registered_models, args[c].name) = EmptyBag) =>
            /\ pc'[c] = "idle"
            /\ last'.op = "create_model_version"
            /\ last'.args.name = args[c].name
            /\ last'.args.attempt = args[c].attempt
            /\ last'.status = RESOURCE_DOES_NOT_EXIST
            /\ last'.value = Null
            /\ UNCHANGED <<registered_models, model_versions, returned>>
    ]_vars

\* the first lookup of a call failed, on a store that holds another model
C19_Witness ==
    /\ last.op = "create_model_version"
    /\ last.status = RESOURCE_DOES_NOT_EXIST
    /\ last.args.attempt = 0
    /\ registered_models # EmptyBag

\* the operations that look a model up by its name, and those that look a
\* version up by its name and number
ByNameOps ==
    {"update_registered_model", "delete_registered_model",
     "get_registered_model_details", "get_latest_versions"}
ByVersionOps ==
    {"update_model_version", "delete_model_version",
     "get_model_version_details", "get_model_version_download_uri"}

\* C20: each of the by-name operations on a name that no model has, and each
\* of the by-(name, version) operations on a version that is not stored,
\* fails with NotFound and leaves both tables as they were
C20_AbsentIsNotFound ==
    /\ [][\A op \in ByNameOps :
            (/\ AtomicStep(op)
             /\ QueryRegisteredModels(registered_models, last'.args.name) = EmptyBag) =>
                /\ last'.status = RESOURCE_DOES_NOT_EXIST
                /\ UNCHANGED tables
       ]_vars
    /\ [][\A op \in ByVersionOps :
            (/\ AtomicStep(op)
             /\ QueryModelVersions(model_versions, last'.args.name,
                                   last'.args.version) = EmptyBag) =>
                /\ last'.status = RESOURCE_DOES_NOT_EXIST
                /\ UNCHANGED tables
       ]_vars

\* an update, with a stage text that is no stage, of a version that is not
\* stored, of a model that has another version
C20_Witness ==
    /\ last.op = "update_model_version"
    /\ last.status = RESOURCE_DOES_NOT_EXIST
    /\ last.args.stage = "bogus"
    /\ ModelVersionsOf(model_versions, last.args.name) # EmptyBag

\* C21: get_model_version_download_uri of a stored version returns the
\* source that was passed to the create_model_version that created it: the
\* row is inserted with the source of the call, no later step changes the
\* source of a row that it keeps (under its name or the name its model is
\* renamed to), and the call returns the source of the row it finds
C21_DownloadUriIsSource ==
    /\ [][\A c \in Callers : CmvReturns(c) =>
            LET made == QueryModelVersions(model_versions', args[c].name,
                                           last'.value.version)
            IN  /\ BagCardinality(made) = 1
                /\ \A r \in DOMAIN made : r.source = args[c].source
       ]_vars
    /\ [][\A r \in Row(model_versions) :
            \A p \in Row(QueryModelVersions(model_versions', NameAfterStep(r),
                                            r.version)) :
                p.source = r.source
       ]_vars
    /\ [][(/\ AtomicStep("get_model_version_download_uri")
            /\ QueryModelVersions(model_versions, last'.args.name,
                                  last'.args.version) # EmptyBag) =>
                /\ last'.status = OK
                /\ \A r \in Row(QueryModelVersions(model_versions, last'.args.name,
                                                    last'.args.version)) :
                      last'.value = r.source
       ]_vars

\* the source of a version that was created as ("A", 1) is returned for
\* ("B", 1), the name its model was renamed to
C21_Witness ==
    /\ last.op = "get_model_version_download_uri"
    /\ last.status = OK
    /\ last.args.name = "B"
    /\ last.value = "s2"
    /\ <<"A", last.args.version>> \in DOMAIN returned
    /\ <<"B", last.args.version>> \notin DOMAIN returned

\* the version numbers stored under the name
StoredVersions(mvs, name) == {r.version : r \in Row(ModelVersionsOf(mvs, name))}

AttemptsMade ==
    IF last.status = GIVING_UP THEN last.args.attempt ELSE last.args.attempt + 1

\* C23: a create_model_version call opens one session for each attempt that
\* it makes
C23_SessionPerAttempt ==
    last.op = "create_model_version" => last.sessions = AttemptsMade

\* a model of that name is stored
Registered(name) == QueryRegisteredModels(registered_models, name) # EmptyBag

\* the last call was a read by that operation, and it returned
ReadReturned(op) == last.op = op /\ last.status = OK

C25_InvalidStateUnreachable ==
    /\ \A r \in Row(registered_models) :
          /\ registered_models[r] = 1
          /\ \A o \in Row(registered_models) : o.name = r.name => o = r
    /\ \A r \in Row(model_versions) :
          /\ model_versions[r] = 1
          /\ \A o \in Row(model_versions) :
                (o.name = r.name /\ o.version = r.version) => o = r
    /\ last.status # INVALID_STATE

\* the lookup of one of the two versions that were created under a name
\* found its one row
C25_Witness ==
    /\ ReadReturned("get_model_version_details")
    /\ Cardinality({nv \in DOMAIN returned : nv[1] = last.args.name}) = 2
    /\ returned[<<last.args.name, last.args.version>>] = 1

\* C26: update_registered_model of a stored model with neither a new name nor
\* a description succeeds, returns the model under its name, and leaves both
\* tables as they were
C26_EmptyUpdateIsNoOp ==
    [][(/\ AtomicStep("update_registered_model")
        /\ last'.args.new_name = Null
        /\ last'.args.description = Null
        /\ QueryRegisteredModels(registered_models, last'.args.name) # EmptyBag) =>
            /\ last'.status = OK
            /\ last'.value = [name |-> last'.args.name]
            /\ UNCHANGED tables
    ]_vars

\* the empty update of a model that has a description and a version
C26_Witness ==
    /\ last.op = "update_registered_model"
    /\ last.status = OK
    /\ last.args.new_name = Null
    /\ last.args.description = Null
    /\ \E r \in Row(registered_models) :
          r.name = last.args.name /\ r.description # Null
    /\ ModelVersionsOf(model_versions, last.args.name) # EmptyBag

\* the operations that only read
ReadOps ==
    {"list_registered_models", "get_registered_model_details", "get_latest_versions",
     "get_model_version_details", "get_model_version_download_uri",
     "search_model_versions"}

\* C27: a call of a read operation, whether it returns or fails, leaves both
\* tables as they were
C27_ReadsChangeNothing ==
    [][\A op \in ReadOps : AtomicStep(op) => UNCHANGED tables]_vars

\* a read that returned the details of a version, which is stored still
C27_Witness ==
    /\ ReadReturned("get_model_version_details")
    /\ last.value \in Row(model_versions)
    /\ last.value.current_stage # STAGE_NONE

\* C29: a delete_model_version that succeeds removes the one row of the
\* (name, version) it was given: the rows of registered_models, the model of
\* that name among them, and every other row of model_versions stay as they
\* were
C29_DeleteVersionFrame ==
    [][(AtomicStep("delete_model_version") /\ last'.status = OK) =>
        LET gone == QueryModelVersions(model_versions, last'.args.name,
                                       last'.args.version)
        IN  /\ BagCardinality(gone) = 1
            /\ model_versions' = model_versions (-) gone
            /\ registered_models' = registered_models
            /\ QueryRegisteredModels(registered_models', last'.args.name) # EmptyBag
    ]_vars

\* version 1 of a model was deleted, and its version 2 is stored
C29_Witness ==
    /\ last.op = "delete_model_version"
    /\ last.status = OK
    /\ last.args.version = 1
    /\ StoredVersions(model_versions, last.args.name) = {2}

\* C28: every row of registered_models and every row of model_versions has a
\* last_updated_time equal to its creation_time, and no update of a row
\* changes either of them
C28_TimestampsEqual ==
    /\ [](\A r \in Row(registered_models) : r.last_updated_time = r.creation_time)
    /\ [](\A r \in Row(model_versions) : r.last_updated_time = r.creation_time)
    /\ [][(AtomicStep("update_registered_model") /\ last'.status = OK) =>
            LET new_name == IF last'.args.new_name = Null THEN last'.args.name
                            ELSE last'.args.new_name
            IN  \A r \in Row(QueryRegisteredModels(registered_models, last'.args.name)) :
                \A p \in Row(QueryRegisteredModels(registered_models', new_name)) :
                    /\ p.creation_time = r.creation_time
                    /\ p.last_updated_time = r.last_updated_time
       ]_vars
    /\ [][(AtomicStep("update_model_version") /\ last'.status = OK) =>
            \A r \in Row(QueryModelVersions(model_versions, last'.args.name,
                                            last'.args.version)) :
            \A p \in Row(QueryModelVersions(model_versions', last'.args.name,
                                            last'.args.version)) :
                /\ p.creation_time = r.creation_time
                /\ p.last_updated_time = r.last_updated_time
       ]_vars

\* a model and its version, created at different times, both updated since
C28_Witness ==
    /\ last.op \in {"update_registered_model", "update_model_version"}
    /\ last.status = OK
    /\ \E m \in Row(registered_models), v \in Row(model_versions) :
          /\ v.name = m.name
          /\ m.description # Null
          /\ v.current_stage # STAGE_NONE
          /\ m.creation_time # v.creation_time

\* the rows of model_versions that are not of this name
VersionsNotOf(mvs, name) == mvs (-) ModelVersionsOf(mvs, name)

\* C30: a rename from a name to another one that succeeds leaves no model
\* and no version under the old name; the create_registered_model of the old
\* name that follows succeeds, adds no version, and its details show no
\* version; and a create_model_version on a name that has no version returns
\* version 1 and leaves the versions of every other name as they were
C30_RenameFreesName ==
    /\ [][(RenameSucceeds /\ last'.args.new_name # last'.args.name) =>
            /\ QueryRegisteredModels(registered_models', last'.args.name) = EmptyBag
            /\ ModelVersionsOf(model_versions', last'.args.name) = EmptyBag
       ]_vars
    /\ [][(/\ AtomicStep("create_registered_model")
            /\ last.op = "update_registered_model"
            /\ last.status = OK
            /\ last.args.new_name \notin {Null, last.args.name}
            /\ last'.args.name = last.args.name) =>
                /\ last'.status = OK
                /\ last'.value = [name |-> last.args.name]
                /\ BagCardinality(QueryRegisteredModels(registered_models',
                                                        last.args.name)) = 1
                /\ ModelVersionsOf(model_versions', last.args.name) = EmptyBag
                /\ model_versions' = model_versions
       ]_vars
    /\ [][(/\ AtomicStep("get_registered_model_details")
            /\ last'.status = OK
            /\ ModelVersionsOf(model_versions, last'.args.name) = EmptyBag) =>
                last'.value.latest_versions = {}
       ]_vars
    /\ [][\A c \in Callers :
            (CmvReturns(c) /\ StoredVersions(model_versions, args[c].name) = {}) =>
                /\ last'.value = [name |-> args[c].name, version |-> 1]
                /\ VersionsNotOf(model_versions', args[c].name)
                       = VersionsNotOf(model_versions, args[c].name)
       ]_vars

\* version 1 was returned under a name, the model was renamed, the name was
\* registered again and its first create_model_version returned version 1;
\* the first version is stored under the other name
C30_Witness ==
    /\ CmvReturned
    /\ last.value.version = 1
    /\ returned[<<last.value.name, 1>>] = 2
    /\ BagCardinality(ModelVersionsOf(model_versions, last.value.name)) = 1
    /\ \E other \in Names \ {last.value.name} :
          /\ QueryRegisteredModels(registered_models, other) # EmptyBag
          /\ \E r \in Row(ModelVersionsOf(model_versions, other)) :
                r.version = 1 /\ r.source # last.args.source
====
